---- MODULE Spec2Model ----
(***************************************************************************)
(* A model of the repESP field code: the GridMesh / Field dataclasses of   *)
(* repESP/fields.py and the Cube / Molecule / Field / Grid classes of      *)
(* cube_helpers.py.                                                        *)
(*                                                                         *)
(* Numbers are integers.  A Euclidean distance is carried as its square    *)
(* (Dist2): the square root is strictly increasing, so every comparison of *)
(* two distances agrees with the comparison of their squares.              *)
(***************************************************************************)
EXTENDS Integers, Sequences, FiniteSets, TLC

VARIABLES
    mesh,       \* fields.py: the GridMesh under construction / constructed
    gen,        \* fields.py: the generator object returned by GridMesh.points
    yielded,    \* the points the current generator has yielded so far
    traversal,  \* how many generators have been obtained from the mesh
    fa,         \* fields.py: Field operand a (with the inputs it was built from)
    fb,         \* fields.py: Field operand b
    fres,       \* fields.py: the last arithmetic operation and its result
    grid,       \* cube_helpers.py: the Grid passed to calc_field
    molecule,   \* cube_helpers.py: the Molecule (self of calc_field)
    ev,         \* calc_field: its arguments, loop variables and position
    calls,      \* calc_field: the points field_func was called at, in order
    results,    \* calc_field: the local `results` (None while unbound)
    evOut,      \* calc_field: what the call returned or raised
    cfile,      \* Cube.__init__: the contents of the file cube_fn names
    cu,         \* Cube.__init__: its position and the attributes set so far
    fs,         \* the file system: the contents of each path (None: no file)
    fsBefore,   \* the file system as it was when write_cube was called
    wr,         \* Field.write_cube: its arguments, loop variables, position
    wOut,       \* Field.write_cube: None, or the error it raised
    dt,         \* Field.distance_transform: its arguments and its outcome
    atomCall    \* Atom.__init__: the arguments and the Atom constructed

meshVars == <<mesh, gen, yielded, traversal>>
fieldVars == <<fa, fb, fres>>
evalVars == <<grid, molecule, ev, calls, results, evOut>>
cubeVars == <<cfile, cu>>
writeVars == <<fs, fsBefore, wr, wOut>>
transformVars == <<dt>>
atomVars == <<atomCall>>
vars == <<mesh, gen, yielded, traversal, fa, fb, fres,
          grid, molecule, ev, calls, results, evOut, cfile, cu,
          fs, fsBefore, wr, wOut, dt, atomCall>>

\* What the operations of one class leave alone: the state of the others.
notMesh == <<fieldVars, evalVars, cubeVars, writeVars, transformVars, atomVars>>
notField == <<meshVars, evalVars, cubeVars, writeVars, transformVars, atomVars>>
notEval == <<meshVars, fieldVars, cubeVars, writeVars, transformVars, atomVars>>
notCube == <<meshVars, fieldVars, evalVars, writeVars, transformVars, atomVars>>
notWrite == <<meshVars, fieldVars, evalVars, cubeVars, transformVars, atomVars>>
notTransform == <<meshVars, fieldVars, evalVars, cubeVars, writeVars, atomVars>>
notAtom == <<meshVars, fieldVars, evalVars, cubeVars, writeVars, transformVars>>

None == [kind |-> "none"]
Raised(e) == [kind |-> "error", error |-> e]

(***************************************************************************)
(* Bounds of the model.                                                    *)
(***************************************************************************)
MaxCount == 2
MaxTraversals == 2
MaxLen == 2

Abs(x) == IF x < 0 THEN -x ELSE x
Max2(x, y) == IF x < y THEN y ELSE x

(***************************************************************************)
(* repESP/fields.py : GridMesh                                             *)
(***************************************************************************)
Origins == {<<0, 0, 0>>, <<1, -2, 3>>}

\* The three axis vectors offered to the constructor: two aligned families
\* and two that are not aligned to the coordinate axes.
AxisVectors ==
    { <<<<1, 0, 0>>, <<0, 1, 0>>, <<0, 0, 1>>>>,
      <<<<1, 0, 0>>, <<0, 2, 0>>, <<0, 0, 3>>>>,
      <<<<1, 1, 0>>, <<0, 1, 0>>, <<0, 0, 1>>>>,
      <<<<1, 0, 0>>, <<0, 1, 0>>, <<2, 0, 1>>>> }

PointCounts == (-1) .. MaxCount

\* math.isclose(a, b) with its defaults rel_tol = 1e-9, abs_tol = 0.0
IsClose(a, b) ==
    \/ a = b
    \/ Abs(a - b) * 1000000000 <= Max2(Abs(a), Abs(b))

\* GridMesh.Axis.__post_init__
AxisPostInit(axis) ==
    IF axis.point_count < 0 THEN Raised("ValueError") ELSE None

\* GridMesh._axes_are_aligned_to_coordinate_axes
AxesAreAligned(axes) ==
    /\ IsClose(axes[1].vector[2], 0)
    /\ IsClose(axes[1].vector[3], 0)
    /\ IsClose(axes[2].vector[1], 0)
    /\ IsClose(axes[2].vector[3], 0)
    /\ IsClose(axes[3].vector[1], 0)
    /\ IsClose(axes[3].vector[2], 0)

\* GridMesh(origin, Axes(Axis(v1, n1), Axis(v2, n2), Axis(v3, n3))): the
\* Axis objects are built first, then the mesh itself.
NewGridMesh(origin, axes) ==
    IF \E a \in 1..3 : AxisPostInit(axes[a]) # None
    THEN Raised("ValueError")
    ELSE IF ~AxesAreAligned(axes)
         THEN Raised("NotImplementedError")
         ELSE [kind |-> "GridMesh", origin |-> origin, axes |-> axes]

\* GridMesh.__len__ : functools.reduce(operator.mul, point counts)
MeshLenSum(m) ==
    (m.axes[1].point_count + m.axes[2].point_count) + m.axes[3].point_count

MeshLen(m) ==
    (m.axes[1].point_count * m.axes[2].point_count) * m.axes[3].point_count

\* The Coords yielded in the body of the innermost loop of GridMesh.points
PointAtSwapped(m, i, j, k) ==
    << m.origin[1] + i * m.axes[1].vector[1],
       m.origin[2] + k * m.axes[2].vector[2],
       m.origin[3] + j * m.axes[3].vector[3] >>

PointAt(m, i, j, k) ==
    << m.origin[1] + i * m.axes[1].vector[1],
       m.origin[2] + j * m.axes[2].vector[2],
       m.origin[3] + k * m.axes[3].vector[3] >>

MeshIdle ==
    /\ mesh = None
    /\ gen = None
    /\ yielded = <<>>
    /\ traversal = 0

\* mesh = GridMesh(origin, axes)
ConstructGridMesh ==
    /\ mesh = None
    /\ \E origin \in Origins, vs \in AxisVectors,
          n1 \in PointCounts, n2 \in PointCounts, n3 \in PointCounts :
          mesh' = NewGridMesh(origin,
                      << [vector |-> vs[1], point_count |-> n1],
                         [vector |-> vs[2], point_count |-> n2],
                         [vector |-> vs[3], point_count |-> n3] >>)
    /\ UNCHANGED <<gen, yielded, traversal>>
    /\ UNCHANGED notMesh

\* it = mesh.points : every access of the property makes a fresh generator,
\* suspended before its first statement.
StartPoints ==
    /\ mesh.kind = "GridMesh"
    /\ IF gen = None THEN TRUE ELSE gen.pc = "done"
    /\ traversal < MaxTraversals
    /\ gen' = [kind |-> "generator", pc |-> "for_i", i |-> 0, j |-> 0, k |-> 0]
    /\ yielded' = <<>>
    /\ traversal' = traversal + 1
    /\ UNCHANGED mesh
    /\ UNCHANGED notMesh

\* for i in range(self.axes[0].point_count):
GenForI ==
    /\ gen.kind = "generator" /\ gen.pc = "for_i"
    /\ gen' = IF gen.i < mesh.axes[1].point_count
              THEN [gen EXCEPT !.pc = "for_j", !.j = 0]
              ELSE [gen EXCEPT !.pc = "done"]
    /\ UNCHANGED <<mesh, yielded, traversal>>
    /\ UNCHANGED notMesh

\* for j in range(self.axes[1].point_count):
GenForJ ==
    /\ gen.kind = "generator" /\ gen.pc = "for_j"
    /\ gen' = IF gen.j < mesh.axes[2].point_count
              THEN [gen EXCEPT !.pc = "for_k", !.k = 0]
              ELSE [gen EXCEPT !.pc = "for_i", !.i = gen.i + 1]
    /\ UNCHANGED <<mesh, yielded, traversal>>
    /\ UNCHANGED notMesh

\* for k in range(self.axes[2].point_count): yield Coords(...)
GenForK ==
    /\ gen.kind = "generator" /\ gen.pc = "for_k"
    /\ IF gen.k < mesh.axes[3].point_count
       THEN /\ yielded' = Append(yielded, PointAt(mesh, gen.i, gen.j, gen.k))
            /\ gen' = [gen EXCEPT !.k = gen.k + 1]
       ELSE /\ yielded' = yielded
            /\ gen' = [gen EXCEPT !.pc = "for_j", !.j = gen.j + 1]
    /\ UNCHANGED <<mesh, traversal>>
    /\ UNCHANGED notMesh

MeshNext ==
    \/ ConstructGridMesh
    \/ StartPoints
    \/ GenForI
    \/ GenForJ
    \/ GenForK

(***************************************************************************)
(* repESP/fields.py : Field                                                *)
(***************************************************************************)
Values == {-1, 2}

\* The collections of values offered to the Field constructor
ValueSeqs == UNION { [1..n -> Values] : n \in 0..(MaxLen + 1) }

\* The meshes Fields are built over: every constructible GridMesh of at most
\* MaxLen points, over either origin and either aligned family of axes.
FieldMeshes ==
    { m \in { NewGridMesh(o, << [vector |-> vs[1], point_count |-> n1],
                                [vector |-> vs[2], point_count |-> n2],
                                [vector |-> vs[3], point_count |-> n3] >>) :
                o \in Origins, vs \in AxisVectors,
                n1 \in PointCounts, n2 \in PointCounts, n3 \in PointCounts } :
        m.kind = "GridMesh" /\ MeshLen(m) <= MaxLen }

\* Field.__post_init__
FieldNewLess(m, values_) ==
    IF Len(values_) < MeshLen(m)
    THEN Raised("ValueError")
    ELSE [kind |-> "Field", mesh |-> m, values |-> values_]

FieldNew(m, values_) ==
    IF Len(values_) # MeshLen(m)
    THEN Raised("ValueError")
    ELSE [kind |-> "Field", mesh |-> m, values |-> values_]

\* The == the dataclass decorator generates for GridMesh and GridMesh.Axis:
\* the tuples of the fields are compared, (origin, axes) and
\* (vector, point_count).
MeshEqLen(m1, m2) == MeshLen(m1) = MeshLen(m2)

MeshEq(m1, m2) ==
    /\ \A c \in 1..3 : m1.origin[c] = m2.origin[c]
    /\ \A a \in 1..3 :
          /\ \A c \in 1..3 : m1.axes[a].vector[c] = m2.axes[a].vector[c]
          /\ m1.axes[a].point_count = m2.axes[a].point_count

\* zip(xs, ys) stops at the shorter of the two
ZipLen(xs, ys) == IF Len(xs) < Len(ys) THEN Len(xs) ELSE Len(ys)

\* Field.__add__
FieldAdd(self, other) ==
    IF other.kind # "Field"
    THEN Raised("TypeError")
    ELSE IF ~MeshEq(self.mesh, other.mesh)
         THEN Raised("ValueError")
         ELSE FieldNew(self.mesh,
                       [p \in 1..ZipLen(self.values, other.values) |->
                            self.values[p] + other.values[p]])

\* Field.__neg__
FieldNegSame(self) ==
    FieldNew(self.mesh, [p \in 1..Len(self.values) |-> self.values[p]])

FieldNeg(self) ==
    FieldNew(self.mesh, [p \in 1..Len(self.values) |-> -self.values[p]])

\* -other for an operand that is a number, not a Field
Negated(other) ==
    IF other.kind = "Field" THEN FieldNeg(other)
    ELSE [other EXCEPT !.value = -other.value]

\* Field.__sub__ : self + (-other)
FieldSub(self, other) ==
    LET n == Negated(other) IN
    IF n.kind = "error" THEN n ELSE FieldAdd(self, n)

\* Every Field that can be constructed over the meshes above
ValidFields ==
    { FieldNew(m, vs) : m \in FieldMeshes, vs \in ValueSeqs } \ {Raised("ValueError")}

\* The right operands offered to + and - : the Fields, and a plain number
Operands == ValidFields \cup {[kind |-> "int", value |-> 2]}

FieldIdle ==
    /\ fa = None
    /\ fb = None
    /\ fres = None

\* a = Field(mesh, values_)
ConstructField ==
    /\ fa = None
    /\ \E m \in FieldMeshes, vs \in ValueSeqs :
          fa' = [kind |-> "call", mesh_in |-> m, values_in |-> vs,
                 out |-> FieldNew(m, vs)]
    /\ UNCHANGED <<fb, fres>>
    /\ UNCHANGED notField

\* a + b
Add ==
    /\ fa # None /\ fa.out.kind = "Field" /\ fres = None
    /\ \E b \in Operands :
          /\ fb' = b
          /\ fres' = [kind |-> "add", out |-> FieldAdd(fa.out, b)]
    /\ UNCHANGED fa
    /\ UNCHANGED notField

\* a - b
Sub ==
    /\ fa # None /\ fa.out.kind = "Field" /\ fres = None
    /\ \E b \in Operands :
          /\ fb' = b
          /\ fres' = [kind |-> "sub", out |-> FieldSub(fa.out, b)]
    /\ UNCHANGED fa
    /\ UNCHANGED notField

\* (a + b) - b
AddSub ==
    /\ fa # None /\ fa.out.kind = "Field" /\ fres = None
    /\ \E b \in Operands :
          /\ fb' = b
          /\ LET s == FieldAdd(fa.out, b) IN
             fres' = [kind |-> "addsub",
                      out |-> IF s.kind = "error" THEN s ELSE FieldSub(s, b)]
    /\ UNCHANGED fa
    /\ UNCHANGED notField

FieldNext ==
    \/ ConstructField
    \/ Add
    \/ Sub
    \/ AddSub


(***************************************************************************)
(* cube_helpers.py : Grid, GridAxis                                        *)
(***************************************************************************)
AXES == <<"x", "y", "z">>

\* A point count as it reaches GridAxis.set_point_count: the text of an
\* integer ("3"), the text of a decimal ("2.5", carried in tenths) or a float.
StrInt(n) == [form |-> "str_int", tenths |-> 10 * n]
StrDec(t) == [form |-> "str_dec", tenths |-> t]
Float(t) == [form |-> "float", tenths |-> t]

\* int(x): of a float, truncation towards zero; of a string, its value when
\* it is an integer literal and a ValueError otherwise.
PyInt(tok) ==
    IF tok.form = "str_dec" THEN Raised("ValueError")
    ELSE [kind |-> "int",
          value |-> IF tok.tenths < 0 THEN -((-tok.tenths) \div 10)
                    ELSE tok.tenths \div 10]

\* GridAxis.set_point_count: the point count stored, or the error raised
SetPointCount(label, tok) ==
    LET n == PyInt(tok) IN
    IF n.kind = "error" THEN n
    ELSE IF 10 * n.value # tok.tenths THEN Raised("GridError")
    ELSE IF label = "x" /\ tok.tenths < 0 THEN Raised("GridError")
    ELSE n

\* GridAxis.set_intervals: the flag it returns
AlignedToCoordAxis(a, intervals) ==
    \A direction \in 1..3 : direction # a => intervals[direction] = 0

\* Grid._add_axis for the axes from a on, in order: the GridAxis objects, or
\* the first error raised
RECURSIVE AddAxes(_, _, _)
AddAxes(grid_input, a, axes) ==
    IF a > 3 THEN [kind |-> "axes", axes |-> axes]
    ELSE LET input_axis == grid_input[a]
             n == SetPointCount(AXES[a], input_axis[1])
             intervals == SubSeq(input_axis, 2, 4)
         IN  IF n.kind = "error" THEN n
             ELSE AddAxes(grid_input, a + 1,
                     Append(axes, [label |-> AXES[a],
                                   point_count |-> n.value,
                                   intervals |-> intervals,
                                   dir_interval |-> intervals[a]]))

\* Grid.__init__
NewGrid(grid_input) ==
    IF Len(grid_input) # 3 \/ \E r \in 1..Len(grid_input) : Len(grid_input[r]) # 4
    THEN Raised("GridError")
    ELSE LET r == AddAxes(grid_input, 1, <<>>) IN
         IF r.kind = "error" THEN r
         ELSE LET aligned == \A a \in 1..3 :
                                 AlignedToCoordAxis(a, r.axes[a].intervals)
              IN  [kind |-> "Grid",
                   origin_coords |-> None,
                   axes |-> r.axes,
                   aligned_to_coord |-> aligned,
                   dir_intervals |-> IF aligned
                                     THEN [a \in 1..3 |-> r.axes[a].dir_interval]
                                     ELSE <<>>,
                   points_on_axes |-> [a \in 1..3 |-> r.axes[a].point_count]]

\* The point counts offered on an axis line
CountTokens ==
    {StrInt(n) : n \in (-1)..MaxCount} \cup {StrDec(15), Float(15)}

\* The interval columns of the three axis lines: two aligned grids and one
\* whose x axis is not aligned.
GridIntervals ==
    { <<<<1, 0, 0>>, <<0, 1, 0>>, <<0, 0, 1>>>>,
      <<<<2, 0, 0>>, <<0, 1, 0>>, <<0, 0, 2>>>>,
      <<<<1, 1, 0>>, <<0, 1, 0>>, <<0, 0, 1>>>> }

GridOrigins == {<<0, 0, 0>>}

(***************************************************************************)
(* cube_helpers.py : Atom, Molecule                                        *)
(***************************************************************************)
Atom(label, atomic_no, coords, charges) ==
    [label |-> label, atomic_no |-> atomic_no, coords |-> coords,
     charges |-> charges]

\* The molecules evaluated: one atom; two atoms equidistant from the points
\* of the plane z = 0; two atoms of which the first, or the second, carries
\* no "mk" charge; one atom whose charges are keyed by the empty string too.
Molecules ==
    { << Atom(1, 8, <<0, 0, 1>>, [cube |-> 8, mk |-> -1]) >>,
      << Atom(1, 1, <<0, 0, -1>>, [cube |-> 1, mk |-> 1]),
         Atom(2, 6, <<0, 0, 1>>, [cube |-> 6, mk |-> -2]) >>,
      << Atom(1, 1, <<0, 1, 0>>, [cube |-> 1]),
         Atom(2, 6, <<1, 0, 0>>, [cube |-> 6, mk |-> -2]) >>,
      << Atom(1, 1, <<1, 1, 1>>, [cube |-> 1, mk |-> 1]),
         Atom(2, 6, <<0, 0, 0>>, [cube |-> 6]) >>,
      << Atom(1, 1, <<0, 0, 1>>, ("" :> 1) @@ [cube |-> 1]) >> }

ChargeTypes == {"cube", "mk", "resp", ""}

\* scipy's euclidean(u, v), squared
Dist2(u, v) ==
    (u[1] - v[1]) * (u[1] - v[1]) + (u[2] - v[2]) * (u[2] - v[2])
        + (u[3] - v[3]) * (u[3] - v[3])

\* Molecule._rep_esp_func, from atom a on.  The sum of charge/distance is
\* kept as the sequence of its terms <<charge, squared distance>>.
RECURSIVE RepEspLoop(_, _, _, _, _)
RepEspLoop(self, p, charge_type, a, value) ==
    IF a > Len(self) THEN [kind |-> "values", values |-> <<value>>]
    ELSE IF charge_type \notin DOMAIN self[a].charges THEN Raised("KeyError")
    ELSE RepEspLoop(self, p, charge_type, a + 1,
             Append(value, <<self[a].charges[charge_type], Dist2(p, self[a].coords)>>))

RepEspFunc(self, p, charge_type) == RepEspLoop(self, p, charge_type, 1, <<>>)

Inf == [inf |-> TRUE, d2 |-> 0]
Finite(d) == [inf |-> FALSE, d2 |-> d]

\* dist < min_dist
DistLessOrEqual(dist, min_dist) == min_dist.inf \/ dist <= min_dist.d2

DistLess(dist, min_dist) == min_dist.inf \/ dist < min_dist.d2

\* Molecule._dist_func, from atom a on
RECURSIVE DistLoop(_, _, _, _, _)
DistLoop(self, p, a, min_dist, min_atom) ==
    IF a > Len(self) THEN [kind |-> "values", values |-> <<min_atom, min_dist>>]
    ELSE LET dist == Dist2(p, self[a].coords) IN
         IF DistLess(dist, min_dist)
         THEN DistLoop(self, p, a + 1, Finite(dist), [label |-> self[a].label])
         ELSE DistLoop(self, p, a + 1, min_dist, min_atom)

DistFunc(self, p) == DistLoop(self, p, 1, Inf, None)

\* field_func(x, y, z, *field_func_args)
FieldFunc(self, field_func, p, args) ==
    IF field_func = "rep_esp" THEN RepEspFunc(self, p, args[1])
    ELSE DistFunc(self, p)

\* field_func.field_type(field_func_args), set in Molecule.__init__
FieldType(field_func, args) ==
    IF field_func = "rep_esp" THEN [t \in 1..Len(args[1]) |-> "rep_esp"]
    ELSE <<"closest_atom", "closest_atom_dist">>

(***************************************************************************)
(* cube_helpers.py : Molecule.calc_field                                   *)
(***************************************************************************)
\* numpy: np.array(result) followed by resize(shape) in C order, zero-padded
Resize(flat, shape) ==
    [kind |-> "array", shape |-> shape,
     data |-> [ijk \in (0..(shape[1] - 1)) \X (0..(shape[2] - 1))
                           \X (0..(shape[3] - 1)) |->
                 LET pos == ijk[1] * shape[2] * shape[3] + ijk[2] * shape[3]
                                + ijk[3] + 1
                 IN  IF pos <= Len(flat) THEN flat[pos] ELSE 0]]

\* cube_helpers.Field.__init__
NewField(values, g, field_type) ==
    [kind |-> "Field", values |-> values, grid |-> g, field_type |-> field_type]

\* The try / except NameError of the loop body: `results` is bound to one
\* empty list per value on the first pass, then zip appends.
AppendValues(res, values) ==
    LET lists == IF res = None THEN [n \in 1..Len(values) |-> <<>>]
                 ELSE res.lists
    IN  [kind |-> "bound",
         lists |-> [n \in 1..Len(lists) |->
                      IF n <= Len(values) THEN Append(lists[n], values[n])
                      ELSE lists[n]]]

\* Lines 178-184: one Field per (result, field_type) pair of the zip
CollectFields(res, field_func, args, g) ==
    IF res = None THEN Raised("UnboundLocalError")
    ELSE LET types == FieldType(field_func, args)
             n == IF Len(res.lists) < Len(types) THEN Len(res.lists)
                  ELSE Len(types)
         IN  [kind |-> "fields",
              fields |-> [f \in 1..n |->
                            NewField(Resize(res.lists[f], g.points_on_axes),
                                     g, types[f])]]

\* The calls offered: the nearest-atom model, and the point-charge model
\* with each charge type
FieldCalls ==
    {[field_func |-> "dist", args |-> <<>>]}
        \cup {[field_func |-> "rep_esp", args |-> <<ct>>] : ct \in ChargeTypes}

EvalIdle ==
    /\ grid = None
    /\ molecule = <<>>
    /\ ev = None
    /\ calls = <<>>
    /\ results = None
    /\ evOut = None

\* grid = Grid(...); grid.origin_coords = ...   (as Cube.__init__ does)
ConstructGrid ==
    /\ grid = None
    /\ \E c1 \in CountTokens, c2 \in CountTokens, c3 \in CountTokens,
          iv \in GridIntervals, origin \in GridOrigins :
          LET g == NewGrid(<< <<c1>> \o iv[1], <<c2>> \o iv[2], <<c3>> \o iv[3] >>)
          IN  grid' = IF g.kind = "Grid"
                      THEN [g EXCEPT !.origin_coords = origin]
                      ELSE g
    /\ UNCHANGED <<molecule, ev, calls, results, evOut>>
    /\ UNCHANGED notEval

\* molecule.calc_field(grid, field_func, *field_func_args): entry
CalcField ==
    /\ grid.kind = "Grid" /\ ev = None
    /\ \E m \in Molecules, c \in FieldCalls :
          /\ molecule' = m
          /\ ev' = [kind |-> "call", field_func |-> c.field_func,
                    args |-> c.args, pc |-> "for_ix",
                    ix |-> 0, iy |-> 0, iz |-> 0, x |-> 0, y |-> 0, z |-> 0]
    /\ UNCHANGED <<grid, calls, results, evOut>>
    /\ UNCHANGED notEval

\* for ix in range(grid.axes[0].point_count): x = ...
ForIx ==
    /\ ev # None /\ ev.pc = "for_ix"
    /\ IF ev.ix < grid.axes[1].point_count
       THEN IF Len(grid.dir_intervals) < 1
            THEN /\ evOut' = Raised("IndexError")
                 /\ ev' = [ev EXCEPT !.pc = "done"]
            ELSE /\ evOut' = evOut
                 /\ ev' = [ev EXCEPT !.pc = "for_iy", !.iy = 0,
                              !.x = grid.origin_coords[1]
                                        + ev.ix * grid.dir_intervals[1]]
       ELSE /\ evOut' = evOut
            /\ ev' = [ev EXCEPT !.pc = "collect"]
    /\ UNCHANGED <<grid, molecule, calls, results>>
    /\ UNCHANGED notEval

\* for iy in range(grid.axes[1].point_count): y = ...
ForIy ==
    /\ ev # None /\ ev.pc = "for_iy"
    /\ IF ev.iy < grid.axes[2].point_count
       THEN IF Len(grid.dir_intervals) < 2
            THEN /\ evOut' = Raised("IndexError")
                 /\ ev' = [ev EXCEPT !.pc = "done"]
            ELSE /\ evOut' = evOut
                 /\ ev' = [ev EXCEPT !.pc = "for_iz", !.iz = 0,
                              !.y = grid.origin_coords[2]
                                        + ev.iy * grid.dir_intervals[2]]
       ELSE /\ evOut' = evOut
            /\ ev' = [ev EXCEPT !.pc = "for_ix", !.ix = ev.ix + 1]
    /\ UNCHANGED <<grid, molecule, calls, results>>
    /\ UNCHANGED notEval

\* for iz in range(grid.axes[2].point_count): z = ...; values = field_func(...)
ForIz ==
    /\ ev # None /\ ev.pc = "for_iz"
    /\ IF ev.iz < grid.axes[3].point_count
       THEN IF Len(grid.dir_intervals) < 3
            THEN /\ evOut' = Raised("IndexError")
                 /\ ev' = [ev EXCEPT !.pc = "done"]
                 /\ UNCHANGED <<calls, results>>
            ELSE LET z == grid.origin_coords[3] + ev.iz * grid.dir_intervals[3]
                     p == <<ev.x, ev.y, z>>
                     values == FieldFunc(molecule, ev.field_func, p, ev.args)
                 IN  /\ calls' = Append(calls, p)
                     /\ IF values.kind = "error"
                        THEN /\ evOut' = values
                             /\ ev' = [ev EXCEPT !.pc = "done", !.z = z]
                             /\ results' = results
                        ELSE /\ evOut' = evOut
                             /\ ev' = [ev EXCEPT !.iz = ev.iz + 1, !.z = z]
                             /\ results' = AppendValues(results, values.values)
       ELSE /\ ev' = [ev EXCEPT !.pc = "for_iy", !.iy = ev.iy + 1]
            /\ UNCHANGED <<calls, results, evOut>>
    /\ UNCHANGED <<grid, molecule>>
    /\ UNCHANGED notEval

\* fields = [...]; return fields
Collect ==
    /\ ev # None /\ ev.pc = "collect"
    /\ evOut' = CollectFields(results, ev.field_func, ev.args, grid)
    /\ ev' = [ev EXCEPT !.pc = "done"]
    /\ UNCHANGED <<grid, molecule, calls, results>>
    /\ UNCHANGED notEval

EvalNext ==
    \/ ConstructGrid
    \/ CalcField
    \/ ForIx
    \/ ForIy
    \/ ForIz
    \/ Collect

(***************************************************************************)
(* cube_helpers.py : Cube (the reader)                                     *)
(*                                                                         *)
(* A file is a sequence of lines and the values of an unfinished last      *)
(* line.  A line is free text (a sequence of characters), the tokens of a  *)
(* header, axis or atom line, or the values of a line of the value block.  *)
(***************************************************************************)
TextLine(chars) == [text |-> chars]
TokenLine(tokens) == [tokens |-> tokens]
ValueLine(values) == [values |-> values]

TitlePrefixLen == 18

\* The keys of Cube.title_to_type
KeyEsp ==
    <<" ", "E", "l", "e", "c", "t", "r", "o", "s", "t", "a", "t", "i", "c",
      " ", "p", "o", "t">>

KeyEd ==
    <<" ", "E", "l", "e", "c", "t", "r", "o", "n", " ", "d", "e", "n", "s",
      "i", "t", "y", " ">>

\* title[:18]
TitlePrefix(title) ==
    SubSeq(title, 1, IF Len(title) < TitlePrefixLen THEN Len(title)
                     ELSE TitlePrefixLen)

\* Cube.title_to_type[key], a KeyError for any other key
TitleToTypeDefault(key) ==
    IF key = KeyEd THEN [kind |-> "str", value |-> "ed"]
    ELSE [kind |-> "str", value |-> "esp"]

TitleToType(key) ==
    IF key = KeyEsp THEN [kind |-> "str", value |-> "esp"]
    ELSE IF key = KeyEd THEN [kind |-> "str", value |-> "ed"]
    ELSE Raised("KeyError")

\* The titles of the files read
Titles ==
    { KeyEsp \o <<"e", "n", "t", "i", "a", "l", " ", "S", "C", "F">>,
      KeyEd \o <<"f", "r", "o", "m", " ", "S", "C", "F">>,
      KeyEsp,
      <<" ", "U", "n", "k", "n", "o", "w", "n", " ", "f", "i", "e", "l", "d",
        " ", "t", "y", "p", "e">>,
      SubSeq(KeyEd, 1, 17),
      SubSeq(KeyEsp, 2, 18) \o <<"e", "n", "t", "i", "a", "l">>,
      <<" ", "e">> \o SubSeq(KeyEsp, 3, 18),
      SubSeq(KeyEsp, 1, 17) \o <<"T">>,
      <<>> }

\* The values of all lines from line ln on: f.read().split()
RECURSIVE ReadSplit(_, _)
ReadSplit(file, ln) ==
    IF ln > Len(file.lines) THEN file.open
    ELSE file.lines[ln].values \o ReadSplit(file, ln + 1)

\* Cube.field_from_raw
FieldFromRaw(raw_field, g) ==
    IF Len(raw_field) # (g.points_on_axes[1] * g.points_on_axes[2])
                            * g.points_on_axes[3]
    THEN Raised("GridError")
    ELSE IF \E a \in 1..3 : g.points_on_axes[a] < 0
    THEN Raised("ValueError")
    ELSE Resize(raw_field, g.points_on_axes)

\* The atom lines offered: none, or the two atoms of a molecule
AtomLines ==
    { <<>>,
      << TokenLine(<<StrInt(1), 1, 0, 0, -1>>),
         TokenLine(<<StrInt(6), 6, 0, 0, 1>>) >> }

\* The value block of n values 1, 2, ..., n on one line
ValueBlock(n) == IF n <= 0 THEN <<>> ELSE << ValueLine([v \in 1..n |-> v]) >>

\* The files read: any title, NVal 1 or 2, any point counts on x and z and
\* one point on y, and as many values as the header announces or one more.
CubeFiles ==
    { [lines |-> << TextLine(<<" ", "g">>), TextLine(title),
                    TokenLine(<<StrInt(Len(atoms)), 0, 0, 0, nval>>),
                    TokenLine(<<c1, 1, 0, 0>>),
                    TokenLine(<<StrInt(1), 0, 1, 0>>),
                    TokenLine(<<c3, 0, 0, 1>>) >>
                 \o atoms
                 \o ValueBlock(((c1.tenths \div 10) * (c3.tenths \div 10)) + extra),
       open |-> <<>>] :
        title \in Titles, nval \in {1, 2}, atoms \in AtomLines,
        c1 \in CountTokens \ {Float(15)}, c3 \in CountTokens \ {Float(15)},
        extra \in {0, 1} }

CubeIdle ==
    /\ cfile = None
    /\ cu = None

\* Cube(cube_fn): open(cube_fn, 'r')
OpenCube ==
    /\ cu = None
    /\ \E file \in CubeFiles : cfile' = file
    /\ cu' = [kind |-> "Cube", pc |-> "header", ln |-> 1, error |-> None,
              title |-> <<>>, atom_count |-> 0, origin |-> <<>>,
              grid |-> None, molecule |-> <<>>, raw |-> <<>>,
              cube_type |-> None, field |-> None]
    /\ UNCHANGED notCube

\* Lines 24-30: the two text lines and the line of the atom count
ReadHeader ==
    /\ cu # None /\ cu.pc = "header"
    /\ LET header == cfile.lines[3].tokens IN
       IF header[5] # 1
       THEN cu' = [cu EXCEPT !.pc = "done", !.error = Raised("GridError"),
                             !.title = cfile.lines[2].text]
       ELSE cu' = [cu EXCEPT !.pc = "grid", !.ln = 4,
                             !.title = cfile.lines[2].text,
                             !.atom_count = PyInt(header[1]).value,
                             !.origin = SubSeq(header, 2, 4)]
    /\ UNCHANGED cfile
    /\ UNCHANGED notCube

\* Lines 32-33: the three axis lines
ReadGrid ==
    /\ cu # None /\ cu.pc = "grid"
    /\ LET g == NewGrid([a \in 1..3 |-> cfile.lines[cu.ln + a - 1].tokens]) IN
       IF g.kind = "error"
       THEN cu' = [cu EXCEPT !.pc = "done", !.error = g]
       ELSE cu' = [cu EXCEPT !.pc = "atoms", !.ln = cu.ln + 3,
                             !.grid = [g EXCEPT !.origin_coords = cu.origin]]
    /\ UNCHANGED cfile
    /\ UNCHANGED notCube

\* Lines 35-45: one Atom per atom line, labelled from 1 in file order
ReadAtoms ==
    /\ cu # None /\ cu.pc = "atoms"
    /\ cu' = [cu EXCEPT !.pc = "values", !.ln = cu.ln + cu.atom_count,
                 !.molecule = [label \in 1..cu.atom_count |->
                     LET atom_temp == cfile.lines[cu.ln + label - 1].tokens IN
                     Atom(label, PyInt(atom_temp[1]).value,
                          SubSeq(atom_temp, 3, 5), [cube |-> atom_temp[2]])]]
    /\ UNCHANGED cfile
    /\ UNCHANGED notCube

\* Line 48: field = f.read().split()
ReadValues ==
    /\ cu # None /\ cu.pc = "values"
    /\ cu' = [cu EXCEPT !.pc = "type", !.raw = ReadSplit(cfile, cu.ln)]
    /\ UNCHANGED cfile
    /\ UNCHANGED notCube

\* Lines 50-54: the cube type of the title
LookupCubeType ==
    /\ cu # None /\ cu.pc = "type"
    /\ LET t == TitleToType(TitlePrefix(cu.title)) IN
       IF t.kind = "error"
       THEN cu' = [cu EXCEPT !.pc = "done",
                             !.error = Raised("NotImplementedError")]
       ELSE cu' = [cu EXCEPT !.pc = "field", !.cube_type = t]
    /\ UNCHANGED cfile
    /\ UNCHANGED notCube

\* Lines 56-57: self.field = Field(Cube.field_from_raw(field, grid), ...)
MakeCubeField ==
    /\ cu # None /\ cu.pc = "field"
    /\ LET values == FieldFromRaw(cu.raw, cu.grid) IN
       IF values.kind = "error"
       THEN cu' = [cu EXCEPT !.pc = "done", !.error = values]
       ELSE cu' = [cu EXCEPT !.pc = "done",
                      !.field = NewField(values, cu.grid, cu.cube_type.value)]
    /\ UNCHANGED cfile
    /\ UNCHANGED notCube

CubeNext ==
    \/ OpenCube
    \/ ReadHeader
    \/ ReadGrid
    \/ ReadAtoms
    \/ ReadValues
    \/ LookupCubeType
    \/ MakeCubeField

(***************************************************************************)
(* cube_helpers.py : Field.write_cube                                      *)
(***************************************************************************)
Paths == {"out.cube"}

EmptyFile == [lines |-> <<>>, open |-> <<>>]

\* What the path may hold before the call: an earlier file
OldFile == [lines |-> <<TextLine(<<"o", "l", "d">>), ValueLine(<<7, 8>>)>>,
            open |-> <<>>]

\* The characters of a field type
TypeChars(field_type) ==
    IF field_type = "esp" THEN <<"e", "s", "p">>
    ELSE IF field_type = "ed" THEN <<"e", "d">>
    ELSE <<"?">>

\* f.write(text + '\n') of a whole line
WriteLine(file, line) == [file EXCEPT !.lines = Append(file.lines, line)]

\* The power of ten that leaves six digits of v before the point
RECURSIVE SixDigitScale(_)
SixDigitScale(v) == IF v < 1000000 THEN 1 ELSE 10 * SixDigitScale(v \div 10)

\* '{0: .5E}'.format(value) of a whole number, as the number the text
\* denotes: six significant digits, the rest rounded half to even
Format5E(value) ==
    LET v == Abs(value)
        scale == SixDigitScale(v)
        q == v \div scale
        r == v % scale
        up == 2 * r > scale \/ (2 * r = scale /\ q % 2 = 1)
        rounded == (IF up THEN q + 1 ELSE q) * scale
    IN  IF value < 0 THEN -rounded ELSE rounded

\* Values a line holds before it is broken
ValuesPerLine == 6

\* f.write(' {0: .5E}'.format(value))
WriteValue(file, value) ==
    [file EXCEPT !.open = Append(file.open, Format5E(value))]

\* f.write('\n') in the value block
WriteNewline(file) ==
    [lines |-> Append(file.lines, ValueLine(file.open)), open |-> <<>>]

\* Lines 237-244: the two text lines, the atom count line, the axis lines
WriteHeaderLines(file, self, mol) ==
    LET l1 == WriteLine(file, TextLine(<<" ", "C", "u", "b", "e", " ", "f", "i",
                  "l", "e", " ", "g", "e", "n", "e", "r", "a", "t", "e", "d",
                  " ", "b", "y", " ", "r", "e", "p", "E", "S", "P", ".">>))
        l2 == WriteLine(l1, TextLine(<<" ", "C", "u", "b", "e", " ", "f", "i",
                  "l", "e", " ", "f", "o", "r", " ", "f", "i", "e", "l", "d",
                  " ", "o", "f", " ", "t", "y", "p", "e", " ">>
                  \o TypeChars(self.field_type) \o <<".">>))
        l3 == WriteLine(l2, TokenLine(<<StrInt(Len(mol))>>
                                          \o self.grid.origin_coords \o <<1>>))
        l4 == WriteLine(l3, TokenLine(<<StrInt(self.grid.axes[1].point_count)>>
                                          \o self.grid.axes[1].intervals))
        l5 == WriteLine(l4, TokenLine(<<StrInt(self.grid.axes[2].point_count)>>
                                          \o self.grid.axes[2].intervals))
    IN  WriteLine(l5, TokenLine(<<StrInt(self.grid.axes[3].point_count)>>
                                    \o self.grid.axes[3].intervals))

\* Lines 246-249: the charge written for an atom, or the KeyError
AtomCharge(atom, charge_type) ==
    IF charge_type = "None" THEN [kind |-> "int", value |-> atom.atomic_no]
    ELSE IF charge_type \notin DOMAIN atom.charges THEN Raised("KeyError")
    ELSE [kind |-> "int", value |-> atom.charges[charge_type]]

\* self.values.flatten(): the values in C order
Flatten(array) ==
    [p \in 1..(array.shape[1] * array.shape[2] * array.shape[3]) |->
        array.data[<< (p - 1) \div (array.shape[2] * array.shape[3]),
                      ((p - 1) \div array.shape[3]) % array.shape[2],
                      (p - 1) % array.shape[3] >>]]

\* The shapes written: 1..MaxCount points an axis and, on a grid of one
\* point along x, a third axis of a full line of values or one value more
WriteShapes ==
    { sh \in (1..MaxCount) \X (1..MaxCount)
                \X ((1..MaxCount) \cup {ValuesPerLine, ValuesPerLine + 1}) :
        sh[3] <= MaxCount \/ sh[1] = 1 }

\* The value at place v of a Field written: v, and a value of seven digits
\* at the first place
WriteFieldValue(v) == IF v = 1 THEN 1234565 ELSE v

\* The Fields written: over the aligned grid of every shape, of either known
\* type
WriteFields ==
    { LET g == NewGrid(<< <<StrInt(sh[1]), 1, 0, 0>>, <<StrInt(sh[2]), 0, 1, 0>>,
                          <<StrInt(sh[3]), 0, 0, 1>> >>)
      IN  NewField(Resize([v \in 1..(sh[1] * sh[2] * sh[3]) |-> WriteFieldValue(v)],
                          sh),
                   [g EXCEPT !.origin_coords = <<0, 0, 0>>], t) :
        sh \in WriteShapes, t \in {"esp", "ed"} }

\* The charge_type argument: its default None, or a name
WriteChargeTypes == {"None"} \cup ChargeTypes

WriteIdle ==
    /\ fs \in [Paths -> {None}]
    /\ fsBefore = fs
    /\ wr = None
    /\ wOut = None

\* The path holds nothing, or an earlier file
WriteStart ==
    /\ fs \in [Paths -> {None, OldFile}]
    /\ fsBefore = fs
    /\ wr = None
    /\ wOut = None

\* field.write_cube(output_fn, molecule, charge_type): entry
WriteCube ==
    /\ wr = None
    /\ \E self \in WriteFields, output_fn \in Paths, mol \in Molecules,
          charge_type \in WriteChargeTypes :
          wr' = [kind |-> "call", self |-> self, output_fn |-> output_fn,
                 molecule |-> mol, charge_type |-> charge_type,
                 pc |-> "open", a |-> 1, v |-> 1, i |-> 1]
    /\ fsBefore' = fs
    /\ UNCHANGED <<fs, wOut>>
    /\ UNCHANGED notWrite

\* with open(output_fn, 'x') as f:
OpenExclusive ==
    /\ wr # None /\ wr.pc = "open"
    /\ IF fs[wr.output_fn] # None
       THEN /\ wOut' = Raised("FileExistsError")
            /\ wr' = [wr EXCEPT !.pc = "done"]
            /\ fs' = fs
       ELSE /\ wOut' = wOut
            /\ wr' = [wr EXCEPT !.pc = "header"]
            /\ fs' = [fs EXCEPT ![wr.output_fn] = EmptyFile]
    /\ UNCHANGED fsBefore
    /\ UNCHANGED notWrite

\* Lines 237-244
WriteHeader ==
    /\ wr # None /\ wr.pc = "header"
    /\ fs' = [fs EXCEPT ![wr.output_fn] =
                 WriteHeaderLines(fs[wr.output_fn], wr.self, wr.molecule)]
    /\ wr' = [wr EXCEPT !.pc = "atoms"]
    /\ UNCHANGED <<fsBefore, wOut>>
    /\ UNCHANGED notWrite

\* Lines 245-251: one atom line; an exception leaves the with block, which
\* closes the file with what was written
WriteAtom ==
    /\ wr # None /\ wr.pc = "atoms"
    /\ IF wr.a > Len(wr.molecule)
       THEN /\ wr' = [wr EXCEPT !.pc = "values"]
            /\ UNCHANGED <<fs, wOut>>
       ELSE LET atom == wr.molecule[wr.a]
                charge == AtomCharge(atom, wr.charge_type)
            IN  IF charge.kind = "error"
                THEN /\ wOut' = charge
                     /\ wr' = [wr EXCEPT !.pc = "done"]
                     /\ fs' = fs
                ELSE /\ wOut' = wOut
                     /\ wr' = [wr EXCEPT !.a = wr.a + 1]
                     /\ fs' = [fs EXCEPT ![wr.output_fn] =
                                  WriteLine(fs[wr.output_fn],
                                      TokenLine(<<StrInt(atom.atomic_no),
                                                  charge.value>> \o atom.coords))]
    /\ UNCHANGED fsBefore
    /\ UNCHANGED notWrite

\* Lines 252-261: one value, and the line breaks after it
WriteValueStep ==
    /\ wr # None /\ wr.pc = "values"
    /\ LET flat == Flatten(wr.self.values) IN
       IF wr.v > Len(flat)
       THEN /\ wr' = [wr EXCEPT !.pc = "done"]
            /\ fs' = fs
       ELSE LET f1 == WriteValue(fs[wr.output_fn], flat[wr.v])
                f2 == IF wr.i % ValuesPerLine = 0 THEN WriteNewline(f1) ELSE f1
                run == wr.i % wr.self.grid.axes[3].point_count = 0
                f3 == IF run THEN WriteNewline(f2) ELSE f2
            IN  /\ fs' = [fs EXCEPT ![wr.output_fn] = f3]
                /\ wr' = [wr EXCEPT !.v = wr.v + 1,
                                    !.i = IF run THEN 1 ELSE wr.i + 1]
    /\ UNCHANGED <<fsBefore, wOut>>
    /\ UNCHANGED notWrite

WriteNext ==
    \/ WriteCube
    \/ OpenExclusive
    \/ WriteHeader
    \/ WriteAtom
    \/ WriteValueStep

(***************************************************************************)
(* cube_helpers.py : Field.distance_transform                              *)
(*                                                                         *)
(* Distances are carried as their squares, as above.                       *)
(***************************************************************************)
\* select_iso = lambda x: 1 if x < isovalue else 0
SelectIsoLessEq(x, isovalue) == IF x <= isovalue THEN 1 ELSE 0

SelectIso(x, isovalue) == IF x < isovalue THEN 1 ELSE 0

\* The (i, j, k) of an array
ArrayIndices(array) ==
    (0..(array.shape[1] - 1)) \X (0..(array.shape[2] - 1))
        \X (0..(array.shape[3] - 1))

\* The squared distance between two voxels under the sampling
SampledDist2(u, v, sampling) ==
    (sampling[1] * (u[1] - v[1])) * (sampling[1] * (u[1] - v[1]))
        + (sampling[2] * (u[2] - v[2])) * (sampling[2] * (u[2] - v[2]))
        + (sampling[3] * (u[3] - v[3])) * (sampling[3] * (u[3] - v[3]))

\* The least member of a non-empty set of numbers
Least(S) == CHOOSE x \in S : \A y \in S : x <= y

\* scipy's distance_transform_edt(field, sampling) of an array with at least
\* one zero: 0 at a zero, and at any other element the distance to the
\* nearest zero.
ScipyEdt(field, sampling) ==
    LET zeros == { z \in ArrayIndices(field) : field.data[z] = 0 } IN
    [field EXCEPT !.data =
        [v \in ArrayIndices(field) |->
            IF field.data[v] = 0 THEN 0
            ELSE Least({ SampledDist2(v, z, sampling) : z \in zeros })]]

\* What scipy returns for an array without a zero is not specified: any
\* array of that shape.
UnspecifiedEdt(field) ==
    { [field EXCEPT !.data = d] : d \in [ArrayIndices(field) -> {0, 1}] }

\* Field.distance_transform: every outcome the call can have
DistanceTransformStrictTag(self, isovalue) ==
    IF self.field_type # "ed" \/ ~self.grid.aligned_to_coord
    THEN {Raised("GridError")}
    ELSE {NewField(self.values, self.grid, "ed_dist")}

DistanceTransform(self, isovalue) ==
    IF ~self.grid.aligned_to_coord THEN {Raised("GridError")}
    ELSE LET field == [self.values EXCEPT !.data =
                          [v \in ArrayIndices(self.values) |->
                              SelectIso(self.values.data[v], isovalue)]]
         IN  IF \A v \in ArrayIndices(field) : field.data[v] # 0
             THEN { NewField(d, self.grid, "ed_dist") : d \in UnspecifiedEdt(field) }
             ELSE { NewField(ScipyEdt(field, self.grid.dir_intervals),
                             self.grid, "ed_dist") }

\* The densities of a voxel, and the isovalues asked for
Densities == {0, 1, 2}
Isovalues == {1, 2, 3}

\* The axis lines of the grids transformed: the grids above, with 1 to
\* MaxCount points an axis and at most 2 * MaxLen points in all
TransformGrids ==
    { [g EXCEPT !.origin_coords = <<0, 0, 0>>] :
        g \in { h \in { NewGrid(<< <<StrInt(n1)>> \o iv[1],
                                    <<StrInt(n2)>> \o iv[2],
                                    <<StrInt(n3)>> \o iv[3] >>) :
                           n1 \in 1..MaxCount, n2 \in 1..MaxCount,
                           n3 \in 1..MaxCount, iv \in GridIntervals } :
                  h.points_on_axes[1] * h.points_on_axes[2]
                      * h.points_on_axes[3] <= 2 * MaxLen } }

\* The Fields transformed: any densities over those grids, tagged as a
\* density or as a potential
TransformFields ==
    UNION { { NewField([kind |-> "array", shape |-> g.points_on_axes, data |-> d],
                       g, t) :
                d \in [((0..(g.points_on_axes[1] - 1)) \X (0..(g.points_on_axes[2] - 1))
                          \X (0..(g.points_on_axes[3] - 1))) -> Densities],
                t \in {"ed", "esp"} } :
            g \in TransformGrids }

TransformIdle == dt = None

\* field.distance_transform(isovalue)
CallDistanceTransform ==
    /\ dt = None
    /\ \E self \in TransformFields, isovalue \in Isovalues :
          \E out \in DistanceTransform(self, isovalue) :
              dt' = [kind |-> "call", self |-> self, isovalue |-> isovalue,
                     out |-> out]
    /\ UNCHANGED notTransform

TransformNext ==
    \/ CallDistanceTransform

(***************************************************************************)
(* cube_helpers.py : Atom.__init__                                         *)
(***************************************************************************)
\* Atom.periodic: the symbols of its (symbol, name) pairs
Periodic ==
    <<"H", "He", "Li", "Be", "B", "C", "N", "O", "F", "Ne",
      "Na", "Mg", "Al", "Si", "P", "S", "Cl", "Ar">>

\* A string that is an element's symbol
Symbol(s) == [form |-> "symbol", text |-> s]

\* seq[i] of a Python list: indices from 0, a negative index counted from
\* the end, IndexError outside -len .. len - 1
PyIndex(seq, i) ==
    IF i >= 0 /\ i < Len(seq) THEN seq[i + 1]
    ELSE IF i < 0 /\ i >= -Len(seq) THEN seq[Len(seq) + i + 1]
    ELSE Raised("IndexError")

\* The try / except IndexError of Atom.__init__
Identity(atomic_no) ==
    LET entry == PyIndex([n \in 1..Len(Periodic) |-> Symbol(Periodic[n])],
                         atomic_no - 1)
    IN  IF entry = Raised("IndexError") THEN StrInt(atomic_no) ELSE entry

\* Atom(label, atomic_no, coords)
NewAtom(label, atomic_no, coords) ==
    [label |-> label, atomic_no |-> atomic_no, identity |-> Identity(atomic_no),
     charges |-> <<>>, coords |-> coords]

\* Atomic numbers tried: the table and MaxCount + 1 numbers past either end
\* of the negative indices and of the table
AtomicNumbers ==
    (-(Len(Periodic) + MaxCount))..(Len(Periodic) + MaxCount + 1)

AtomLabels == 1..(MaxLen + 1)
AtomCoords == {None, <<0, 0, 0>>}

AtomIdle == atomCall = None

ConstructAtom ==
    /\ atomCall = None
    /\ \E label \in AtomLabels, atomic_no \in AtomicNumbers, coords \in AtomCoords :
          atomCall' = [kind |-> "call", atomic_no |-> atomic_no,
                       out |-> NewAtom(label, atomic_no, coords)]
    /\ UNCHANGED notAtom

AtomNext ==
    \/ ConstructAtom

(***************************************************************************)
(* cube_helpers.py : Cube() of a file Field.write_cube wrote               *)
(***************************************************************************)
\* write_cube, called while no file is being read
WriteCubeForReading ==
    /\ cu = None
    /\ WriteCube

\* Cube(cube_fn) of a file given, when write_cube was not called
OpenCubeGiven ==
    /\ wr = None
    /\ OpenCube

\* Cube(output_fn) of the file a write_cube that has returned wrote
OpenWritten ==
    /\ wr # None /\ wr.pc = "done" /\ wOut = None
    /\ cu = None
    /\ cfile' = fs[wr.output_fn]
    /\ cu' = [kind |-> "Cube", pc |-> "header", ln |-> 1, error |-> None,
              title |-> <<>>, atom_count |-> 0, origin |-> <<>>,
              grid |-> None, molecule |-> <<>>, raw |-> <<>>,
              cube_type |-> None, field |-> None]
    /\ UNCHANGED notCube

RoundTripNext ==
    \/ WriteCubeForReading
    \/ OpenExclusive
    \/ WriteHeader
    \/ WriteAtom
    \/ WriteValueStep
    \/ OpenCubeGiven
    \/ OpenWritten
    \/ ReadHeader
    \/ ReadGrid
    \/ ReadAtoms
    \/ ReadValues
    \/ LookupCubeType
    \/ MakeCubeField

(***************************************************************************)
(* Specifications                                                          *)
(***************************************************************************)
MeshInit == MeshIdle /\ FieldIdle /\ EvalIdle /\ CubeIdle /\ WriteIdle
                /\ TransformIdle /\ AtomIdle
SpecMesh == MeshInit /\ [][MeshNext]_vars

FieldInit == MeshIdle /\ FieldIdle /\ EvalIdle /\ CubeIdle /\ WriteIdle
                /\ TransformIdle /\ AtomIdle
SpecField == FieldInit /\ [][FieldNext]_vars

EvalInit == MeshIdle /\ FieldIdle /\ EvalIdle /\ CubeIdle /\ WriteIdle
                /\ TransformIdle /\ AtomIdle
SpecEval == EvalInit /\ [][EvalNext]_vars

CubeInit == MeshIdle /\ FieldIdle /\ EvalIdle /\ CubeIdle /\ WriteIdle
                /\ TransformIdle /\ AtomIdle
SpecCube == CubeInit /\ [][CubeNext]_vars

WriteInit == MeshIdle /\ FieldIdle /\ EvalIdle /\ CubeIdle /\ WriteStart
                /\ TransformIdle /\ AtomIdle
SpecWrite == WriteInit /\ [][WriteNext]_vars

TransformInit == MeshIdle /\ FieldIdle /\ EvalIdle /\ CubeIdle /\ WriteIdle
                    /\ TransformIdle /\ AtomIdle
SpecTransform == TransformInit /\ [][TransformNext]_vars

AtomInit == MeshIdle /\ FieldIdle /\ EvalIdle /\ CubeIdle /\ WriteIdle
               /\ TransformIdle /\ AtomIdle
SpecAtom == AtomInit /\ [][AtomNext]_vars

RoundTripInit == MeshIdle /\ FieldIdle /\ EvalIdle /\ CubeIdle /\ WriteIdle
                    /\ TransformIdle /\ AtomIdle
SpecRoundTrip == RoundTripInit /\ [][RoundTripNext]_vars

(***************************************************************************)
(* Claims about GridMesh                                                   *)
(***************************************************************************)
VecAdd(u, v) == <<u[1] + v[1], u[2] + v[2], u[3] + v[3]>>
VecScale(n, v) == <<n * v[1], n * v[2], n * v[3]>>

\* The grid indices of the point at (0-based) position p of the canonical
\* order of a mesh with point counts (n0, n1, n2)
IndicesAt(m, p) ==
    LET n1 == m.axes[2].point_count
        n2 == m.axes[3].point_count
    IN  << p \div (n1 * n2), (p \div n2) % n1, p % n2 >>

\* The (i, j, k) of a mesh, as a set
IndexSet(m) ==
    (0..(m.axes[1].point_count - 1)) \X (0..(m.axes[2].point_count - 1))
        \X (0..(m.axes[3].point_count - 1))

\* origin + i*step0 + j*step1 + k*step2, with the whole step vectors
LatticePoint(m, ijk) ==
    VecAdd(VecAdd(VecAdd(m.origin, VecScale(ijk[1], m.axes[1].vector)),
                  VecScale(ijk[2], m.axes[2].vector)),
           VecScale(ijk[3], m.axes[3].vector))

\* C1: the points yielded so far are a prefix of the nested iteration (first
\* axis slowest, third fastest): the point at position i*n1*n2 + j*n2 + k is
\* origin + i*step0 + j*step1 + k*step2; an exhausted generator has yielded
\* one point for every (i, j, k).
C1_PointsOrder ==
    (mesh.kind = "GridMesh" /\ gen # None) =>
        /\ Len(yielded) <= Cardinality(IndexSet(mesh))
        /\ \A p \in 1..Len(yielded) :
              yielded[p] = LatticePoint(mesh, IndicesAt(mesh, p - 1))
        /\ gen.pc = "done" => Len(yielded) = Cardinality(IndexSet(mesh))

C1_Witness ==
    /\ mesh.kind = "GridMesh" /\ gen # None /\ gen.pc = "done"
    /\ mesh.origin = <<1, -2, 3>>
    /\ mesh.axes[3].vector = <<0, 0, 3>>
    /\ \A a \in 1..3 : mesh.axes[a].point_count = 2
    /\ Len(yielded) = 8
    /\ yielded[2] = <<1, -2, 6>>
    /\ yielded[3] = <<1, 0, 3>>
    /\ yielded[5] = <<2, -2, 3>>

\* C2: a full traversal yields len(mesh) points, which is the product of the
\* three point counts (zero when an axis has no points), on the first
\* traversal and on every later one.
C2_CountIsLen ==
    (mesh.kind = "GridMesh" /\ gen # None /\ gen.pc = "done") =>
        /\ Len(yielded) = MeshLen(mesh)
        /\ MeshLen(mesh) = Cardinality(IndexSet(mesh))

C2_Witness ==
    /\ mesh.kind = "GridMesh" /\ gen # None /\ gen.pc = "done"
    /\ traversal = 2
    /\ mesh.axes[1].point_count = 2
    /\ mesh.axes[2].point_count = 0
    /\ mesh.axes[3].point_count = 2
    /\ yielded = <<>>

(***************************************************************************)
(* Claims about Field                                                      *)
(***************************************************************************)
\* C3: Field(mesh, values) raises (a ValueError) exactly when the number of
\* values differs from the number of points of the mesh; otherwise the Field
\* holds the mesh and the supplied values in the supplied order.
C3_FieldConstruction ==
    fa # None =>
        LET points == Cardinality(IndexSet(fa.mesh_in)) IN
        /\ (fa.out.kind = "error") <=> (Len(fa.values_in) # points)
        /\ fa.out.kind = "error" => fa.out = Raised("ValueError")
        /\ fa.out.kind # "error" =>
              /\ fa.out.kind = "Field"
              /\ fa.out.mesh = fa.mesh_in
              /\ fa.out.values = fa.values_in

C3_Witness ==
    /\ fa # None
    /\ Cardinality(IndexSet(fa.mesh_in)) = 2
    /\ Len(fa.values_in) = 3
    /\ fa.out = Raised("ValueError")

\* C4: a + b and a - b raise (a ValueError) whenever the two meshes differ in
\* origin, in a step vector or in a point count, also when they have the same
\* number of points, and yield a Field whenever the meshes are equal.
C4_MeshMismatchRaises ==
    (fres # None /\ fres.kind \in {"add", "sub"} /\ fb.kind = "Field") =>
        /\ fa.out.mesh # fb.mesh => fres.out = Raised("ValueError")
        /\ fa.out.mesh = fb.mesh => fres.out.kind = "Field"

C4_Witness ==
    /\ fres # None /\ fres.kind = "sub" /\ fb.kind = "Field"
    /\ fa.out.mesh.origin = fb.mesh.origin
    /\ \A a \in 1..3 : fa.out.mesh.axes[a].vector = fb.mesh.axes[a].vector
    /\ fa.out.mesh.axes[2].point_count = 2
    /\ fb.mesh.axes[3].point_count = 2
    /\ Len(fa.out.values) = 2 /\ Len(fb.values) = 2
    /\ fres.out = Raised("ValueError")

\* C5: over one mesh, (a + b) - b is a Field over that mesh with a's values,
\* position by position, and a and b still hold the values and meshes they
\* were built with.
C5_AddSubRoundTrip ==
    (fres # None /\ fres.kind = "addsub" /\ fb.kind = "Field"
        /\ fa.out.mesh = fb.mesh) =>
        /\ fres.out.kind = "Field"
        /\ fres.out.mesh = fa.out.mesh
        /\ Len(fres.out.values) = Len(fa.values_in)
        /\ \A p \in 1..Len(fa.values_in) : fres.out.values[p] = fa.values_in[p]
        /\ fa.out.values = fa.values_in /\ fa.out.mesh = fa.mesh_in
        /\ fb \in ValidFields

C5_Witness ==
    /\ fres # None /\ fres.kind = "addsub" /\ fb.kind = "Field"
    /\ fa.out.mesh = fb.mesh
    /\ fa.out.values = <<-1, 2>>
    /\ fb.values = <<2, 2>>
    /\ fres.out.kind = "Field"
    /\ fres.out.values = <<-1, 2>>

(***************************************************************************)
(* Claims about Molecule.calc_field                                        *)
(***************************************************************************)
\* The (i, j, k) of a Grid, as a set, and at a position of the canonical order
GridIndexSet(g) ==
    (0..(g.points_on_axes[1] - 1)) \X (0..(g.points_on_axes[2] - 1))
        \X (0..(g.points_on_axes[3] - 1))

GridIndicesAt(g, p) ==
    << p \div (g.points_on_axes[2] * g.points_on_axes[3]),
       (p \div g.points_on_axes[3]) % g.points_on_axes[2],
       p % g.points_on_axes[3] >>

\* origin + i*step0 + j*step1 + k*step2 of a Grid
GridPoint(g, ijk) ==
    VecAdd(VecAdd(VecAdd(g.origin_coords, VecScale(ijk[1], g.axes[1].intervals)),
                  VecScale(ijk[2], g.axes[2].intervals)),
           VecScale(ijk[3], g.axes[3].intervals))

\* Every atom of the molecule carries the charge type the call names
ChargeTypeKnown ==
    ev.field_func = "rep_esp" =>
        \A a \in 1..Len(molecule) : ev.args[1] \in DOMAIN molecule[a].charges

\* calc_field has returned Fields; the model function was called once per
\* grid point in the canonical order; each Field holds, at (i, j, k), the
\* value of the model at the point of indices (i, j, k).
VisitedEveryPointOnce ==
    /\ evOut.kind = "fields"
    /\ Len(calls) = Cardinality(GridIndexSet(grid))
    /\ \A p \in 1..Len(calls) : calls[p] = GridPoint(grid, GridIndicesAt(grid, p - 1))
    /\ \A f \in 1..Len(evOut.fields) :
          /\ evOut.fields[f].values.shape = grid.points_on_axes
          /\ DOMAIN evOut.fields[f].values.data = GridIndexSet(grid)
          /\ \A ijk \in GridIndexSet(grid) :
                evOut.fields[f].values.data[ijk]
                    = FieldFunc(molecule, ev.field_func, GridPoint(grid, ijk),
                                ev.args).values[f]

\* C6: for every accepted grid (zero points and non-aligned grids included)
\* and either model, a finished calc_field has visited every point exactly
\* once in the canonical order and returned Fields holding one value per
\* point, at its (i, j, k).
C6_EveryPointOnce ==
    (ev # None /\ ev.pc = "done" /\ ChargeTypeKnown) => VisitedEveryPointOnce

\* What does hold: the same on an aligned grid with at least one point.
CalcFieldOnAlignedGridWithPoints ==
    (ev # None /\ ev.pc = "done" /\ ChargeTypeKnown /\ grid.aligned_to_coord
        /\ \A a \in 1..3 : grid.points_on_axes[a] >= 1) => VisitedEveryPointOnce

\* The atoms at minimal distance from p
Nearest(mol, p) ==
    { a \in 1..Len(mol) :
        \A b \in 1..Len(mol) : Dist2(p, mol[a].coords) <= Dist2(p, mol[b].coords) }

FirstNearest(mol, p) ==
    CHOOSE a \in Nearest(mol, p) : \A b \in Nearest(mol, p) : a <= b

\* C7: at every point the nearest-atom model was called at, it returned the
\* minimum distance to an atom and the label of the first atom, in molecule
\* order, at that distance; with one atom, that atom's label.
C7_FirstNearestAtom ==
    (ev # None /\ ev.field_func = "dist" /\ results # None) =>
        \A p \in 1..Len(results.lists[1]) :
            LET a == FirstNearest(molecule, calls[p]) IN
            /\ results.lists[2][p] = Finite(Dist2(calls[p], molecule[a].coords))
            /\ results.lists[1][p] = [label |-> molecule[a].label]
            /\ Len(molecule) = 1 =>
                   results.lists[1][p] = [label |-> molecule[1].label]

C7_Witness ==
    /\ ev # None /\ ev.field_func = "dist" /\ results # None
    /\ Len(molecule) = 2
    /\ \E p \in 1..Len(results.lists[1]) :
          /\ Nearest(molecule, calls[p]) = {1, 2}
          /\ results.lists[1][p] = [label |-> molecule[1].label]
    /\ \E p \in 1..Len(results.lists[1]) :
          results.lists[1][p] = [label |-> molecule[2].label]

\* Python's LookupError: KeyError and IndexError
LookupErrors == {"KeyError", "IndexError"}

\* C8: the point-charge model with a charge type some atom does not carry
\* ends in a lookup error and returns no Field, whatever the grid.
C8_MissingChargeTypeRaises ==
    (ev # None /\ ev.pc = "done" /\ ev.field_func = "rep_esp" /\ ~ChargeTypeKnown) =>
        /\ evOut.kind = "error"
        /\ evOut.error \in LookupErrors

\* What does hold: on a grid with at least one point that is aligned, the
\* call ends in the KeyError of the charge lookup, at the first point.
MissingChargeTypeOnAlignedGridWithPoints ==
    (ev # None /\ ev.pc = "done" /\ ev.field_func = "rep_esp" /\ ~ChargeTypeKnown
        /\ grid.aligned_to_coord
        /\ \A a \in 1..3 : grid.points_on_axes[a] >= 1) =>
        /\ evOut = Raised("KeyError")
        /\ Len(calls) = 1

(***************************************************************************)
(* Claims about the Cube reader                                            *)
(***************************************************************************)
\* The first 18 characters of the title are exactly the characters of key
StartsWithKey(title, key) ==
    /\ Len(title) >= 18
    /\ \A n \in 1..18 : title[n] = key[n]

\* C9: a title whose first 18 characters are neither ' Electrostatic pot'
\* nor ' Electron density ' ends the reader in an error, with no field type
\* and no field ever set; a title with a known prefix gets the tag of that
\* prefix, 'esp' or 'ed', once the reader is past the lookup.
C9_UnknownTitleRaises ==
    cu # None =>
        LET title == cfile.lines[2].text
            esp == StartsWithKey(title, KeyEsp)
            ed == StartsWithKey(title, KeyEd)
        IN  /\ (~esp /\ ~ed) =>
                  /\ cu.cube_type = None
                  /\ cu.field = None
                  /\ cu.pc = "done" => cu.error.kind = "error"
                  /\ cu.pc \notin {"field"}
            /\ (esp /\ cu.pc = "field") => cu.cube_type.value = "esp"
            /\ (ed /\ cu.pc = "field") => cu.cube_type.value = "ed"
            /\ (esp /\ cu.field # None) => cu.field.field_type = "esp"
            /\ (ed /\ cu.field # None) => cu.field.field_type = "ed"
            /\ cu.pc = "done" => (cu.error = None) # (cu.field = None)

C9_Witness ==
    /\ cu # None /\ cu.pc = "done"
    /\ cu.title = <<" ", "U", "n", "k", "n", "o", "w", "n", " ", "f", "i", "e",
                    "l", "d", " ", "t", "y", "p", "e">>
    /\ cu.grid # None /\ Len(cu.raw) = 2
    /\ cu.error = Raised("NotImplementedError")
    /\ cu.cube_type = None /\ cu.field = None

(***************************************************************************)
(* Claims about Field.write_cube                                           *)
(***************************************************************************)
\* C10: when write_cube has failed, the destination is as it was before the
\* call: the same contents, or still no file.
C10_FailedWriteLeavesPath ==
    (wr # None /\ wr.pc = "done" /\ wOut # None) =>
        fs[wr.output_fn] = fsBefore[wr.output_fn]

\* What does hold: a destination that exists is left as it was, and the call
\* fails with FileExistsError.
ExistingDestinationUntouched ==
    (wr # None /\ wr.pc # "open" /\ fsBefore[wr.output_fn] # None) =>
        /\ wOut = Raised("FileExistsError")
        /\ fs = fsBefore


(***************************************************************************)
(* Field.distance_transform                                                *)
(***************************************************************************)
\* A distance transform that returned a Field
Transformed == IF dt = None THEN FALSE ELSE dt.out.kind = "Field"

\* Two voxels next to each other along one axis
Adjacent(u, v) ==
    \E a \in 1..3 :
        /\ (u[a] - v[a] = 1) \/ (v[a] - u[a] = 1)
        /\ \A b \in (1..3) \ {a} : u[b] = v[b]

\* A voxel with a neighbour on the other side of the isovalue
AdjacentToCrossing(v) ==
    \E u \in ArrayIndices(dt.self.values) :
        /\ Adjacent(u, v)
        /\ (dt.self.values.data[u] < dt.isovalue)
               # (dt.self.values.data[v] < dt.isovalue)

\* C11, as stated: in the transform for isovalue t, a voxel whose density is
\* below t has output 0, and a voxel whose density is t or more has an output
\* above 0 unless it is next to a voxel on the other side of the isovalue
\* (read for the fields scipy's transform is specified for: those with a
\* voxel of density t or more).
C11_BelowIsoIsZero ==
    (/\ Transformed
     /\ \E v \in ArrayIndices(dt.self.values) :
            dt.self.values.data[v] >= dt.isovalue) =>
        \A v \in ArrayIndices(dt.self.values) :
            /\ dt.self.values.data[v] < dt.isovalue => dt.out.values.data[v] = 0
            /\ dt.self.values.data[v] >= dt.isovalue =>
                   \/ dt.out.values.data[v] > 0
                   \/ AdjacentToCrossing(v)

\* C11, amended: on a grid of non-zero steps, when some voxel has a density
\* of t or more, a voxel whose density is t or more has output 0 and a voxel
\* whose density is below t has an output above 0.
C11_AtOrAboveIsoIsZero ==
    (/\ Transformed
     /\ \A a \in 1..3 : dt.self.grid.dir_intervals[a] # 0
     /\ \E v \in ArrayIndices(dt.self.values) :
            dt.self.values.data[v] >= dt.isovalue) =>
        \A v \in ArrayIndices(dt.self.values) :
            /\ dt.self.values.data[v] >= dt.isovalue => dt.out.values.data[v] = 0
            /\ dt.self.values.data[v] < dt.isovalue => dt.out.values.data[v] > 0

\* A transform of a field with voxels on both sides of the isovalue, one of
\* them at the isovalue itself
C11_Witness ==
    /\ Transformed
    /\ \E u, v \in ArrayIndices(dt.self.values) :
          /\ dt.self.values.data[u] = dt.isovalue
          /\ dt.self.values.data[v] < dt.isovalue
          /\ dt.out.values.data[u] = 0
          /\ dt.out.values.data[v] > 1

\* C12: a grid is flagged aligned exactly when every axis has zero steps in
\* the two directions that are not its own; the distance transform of a field
\* over a grid not flagged raises GridError whatever the field's tag, and
\* that of a field over a flagged grid returns a Field tagged 'ed_dist'
\* whatever the field's tag.
C12_UnalignedRaisesWhateverTag ==
    dt # None =>
        /\ dt.self.grid.aligned_to_coord <=>
               \A a \in 1..3 : \A d \in (1..3) \ {a} :
                   dt.self.grid.axes[a].intervals[d] = 0
        /\ ~dt.self.grid.aligned_to_coord => dt.out = Raised("GridError")
        /\ dt.self.grid.aligned_to_coord =>
               /\ dt.out.kind = "Field"
               /\ dt.out.field_type = "ed_dist"
               /\ dt.out.grid = dt.self.grid

\* The transform refused for a field over a grid not flagged, the field
\* tagged as a potential
C12_Witness ==
    IF dt = None THEN FALSE
    ELSE /\ dt.self.field_type = "esp"
         /\ ~dt.self.grid.aligned_to_coord
         /\ dt.out = Raised("GridError")


(***************************************************************************)
(* Atom.__init__                                                           *)
(***************************************************************************)
\* C13: the identity of an Atom is the symbol of its element when the atomic
\* number is in the table (1 to 18), and the atomic number written as a
\* string when it is not (0, negative, above 18): never another element's
\* symbol.
C13_OutsideTableIsPlaceholder ==
    atomCall # None =>
        IF atomCall.atomic_no >= 1 /\ atomCall.atomic_no <= Len(Periodic)
        THEN atomCall.out.identity = Symbol(Periodic[atomCall.atomic_no])
        ELSE atomCall.out.identity = StrInt(atomCall.atomic_no)


(***************************************************************************)
(* Molecule.calc_field: number and tags of the Fields                      *)
(***************************************************************************)
\* The tags of the Fields returned
FieldTags(fields) == [n \in 1..Len(fields) |-> fields[n].field_type]

\* C16: on an aligned grid with points, calc_field with the point-charge
\* model and a charge type every atom carries, the empty string included,
\* returns one Field tagged 'rep_esp', and with the nearest-atom model two
\* Fields tagged 'closest_atom' and 'closest_atom_dist', in that order.
C16_TagsDependOnModelOnly ==
    (ev # None /\ ev.pc = "done" /\ ChargeTypeKnown /\ grid.aligned_to_coord
        /\ \A a \in 1..3 : grid.points_on_axes[a] >= 1) =>
        /\ evOut.kind = "fields"
        /\ FieldTags(evOut.fields) =
               IF ev.field_func = "rep_esp" THEN <<"rep_esp">>
               ELSE <<"closest_atom", "closest_atom_dist">>


(***************************************************************************)
(* Grid.__init__ on the point counts of a cube header                      *)
(***************************************************************************)
\* A point count that is not a non-negative integer
BadPointCount(tok) == tok.tenths < 0 \/ tok.tenths % 10 # 0

\* The reader has constructed, or failed to construct, the Grid of its file
GridLinesRead ==
    IF cu = None THEN FALSE
    ELSE cu.pc \notin {"header", "grid"} /\ cfile.lines[3].tokens[5] = 1

\* C17: when the point count of any of the three axis lines of a cube header
\* is negative or not an integer, no Grid is constructed and the failure is
\* a GridError.
C17_BadPointCountIsGridError ==
    (/\ GridLinesRead
     /\ \E a \in 4..6 : BadPointCount(cfile.lines[a].tokens[1])) =>
        /\ cu.grid = None
        /\ cu.error = Raised("GridError")


(***************************************************************************)
(* Field.write_cube: the value block                                       *)
(***************************************************************************)
\* write_cube has returned without an exception
Written == IF wr = None THEN FALSE ELSE wr.pc = "done" /\ wOut = None

\* The lines of the value block of the file written
ValueLinesWritten ==
    LET lines == fs[wr.output_fn].lines
    IN  SubSeq(lines, 7 + Len(wr.molecule), Len(lines))

\* The lines the claim describes: every run along the third axis cut into
\* lines of 6 values, the last line of a run holding what is left
LinesOfRuns ==
    LET flat == Flatten(wr.self.values)
        n == wr.self.grid.axes[3].point_count
        perRun == (n + 5) \div 6
        runs == Len(flat) \div n
    IN  [m \in 1..(runs * perRun) |->
            LET run == (m - 1) \div perRun
                first == run * n + ((m - 1) % perRun) * 6 + 1
                last == IF first + 5 < (run + 1) * n THEN first + 5
                        ELSE (run + 1) * n
            IN  ValueLine([v \in 1..(last - first + 1) |->
                              Format5E(flat[first + v - 1])])]

\* C15: in the value block written, the values are in mesh order, a line
\* ends after the 6th, 12th, ... value of a run along the third axis and
\* after the last value of a run, with one newline each time: no line is
\* empty, none holds more than 6 values or values of two runs.
C15_OneBreakPerLine ==
    Written =>
        /\ fs[wr.output_fn].open = <<>>
        /\ ValueLinesWritten = LinesOfRuns
        /\ \A m \in 1..Len(ValueLinesWritten) :
              /\ Len(ValueLinesWritten[m].values) >= 1
              /\ Len(ValueLinesWritten[m].values) <= 6


(***************************************************************************)
(* Field.write_cube, then Cube                                             *)
(***************************************************************************)
\* The reader has finished with the file write_cube wrote
ReadBack ==
    IF wr = None \/ cu = None THEN FALSE
    ELSE wr.pc = "done" /\ wOut = None /\ cu.pc = "done"

\* C14: the file write_cube writes for a field of type 'esp' or 'ed' is
\* accepted by the reader and parses back to the same type tag, the same
\* grid (origin, point counts, step vectors), the atoms in the same number
\* and order, and the same values in the same order.
C14_WrittenFileReadsBack ==
    ReadBack =>
        /\ cu.error = None
        /\ cu.field.kind = "Field"
        /\ cu.field.field_type = wr.self.field_type
        /\ cu.grid.origin_coords = wr.self.grid.origin_coords
        /\ cu.grid.points_on_axes = wr.self.grid.points_on_axes
        /\ \A a \in 1..3 :
              cu.grid.axes[a].intervals = wr.self.grid.axes[a].intervals
        /\ Len(cu.molecule) = Len(wr.molecule)
        /\ \A a \in 1..Len(wr.molecule) :
              /\ cu.molecule[a].atomic_no = wr.molecule[a].atomic_no
              /\ cu.molecule[a].coords = wr.molecule[a].coords
        /\ cu.field.values = wr.self.values

====
